---- MODULE Spec2Model ----
(***************************************************************************)
(* Model of src/patches.py: the Patches index (registry, fetch_patches,    *)
(* get, get_app_configs, include_exclude_patch) and PatchLoader.           *)
(*                                                                         *)
(* Python strings whose characters matter (patch names, versions) are      *)
(* sequences of one-character strings; identifiers that are only compared  *)
(* for equality or used as dictionary keys (package ids, short app names,  *)
(* attribute names, paths) are TLA+ strings.                               *)
(***************************************************************************)
EXTENDS Integers, Sequences, FiniteSets, TLC

VARIABLES
    buckets,   \* the list attributes of the Patches instance, by attribute name
    loaded,    \* the manifest most recently returned by load_patches to fetch_patches
    app,       \* the APP descriptor passed to the last call, as the call left it
    parser,    \* the calls the last include_exclude_patch made on its parser, in order
    outcome    \* the last call: its name, argument, exception raised, value returned

vars == <<buckets, loaded, app, parser, outcome>>

(***************************************************************************)
(* Bounds of the model.                                                    *)
(***************************************************************************)
\* A manifest has at most MaxSize patches and compatible-package entries together.
MaxSize == 3

(***************************************************************************)
(* Python values.                                                          *)
(***************************************************************************)
None == <<"None">>
EmptyStr == <<>>
All == <<"a", "l", "l">>
Latest == <<"l", "a", "t", "e", "s", "t">>
V10 == <<"1", ".", "0">>
V20 == <<"2", ".", "0">>

\* bool(x) of a value that is None or a string
Truthy(x) == x # None /\ x # EmptyStr

\* ord(c) for the characters the model's versions are made of
Ord(c) ==
    CASE c = "." -> 46
      [] c = "0" -> 48
      [] c = "1" -> 49
      [] c = "2" -> 50
      [] c = "a" -> 97
      [] c = "e" -> 101
      [] c = "l" -> 108
      [] c = "s" -> 115
      [] c = "t" -> 116

\* str.__lt__: lexicographic by code point, a proper prefix is smaller
RECURSIVE StrLess(_, _)
StrLess(a, b) ==
    IF b = <<>> THEN FALSE
    ELSE IF a = <<>> THEN TRUE
    ELSE IF Ord(Head(a)) < Ord(Head(b)) THEN TRUE
    ELSE IF Ord(Head(a)) > Ord(Head(b)) THEN FALSE
    ELSE StrLess(Tail(a), Tail(b))

\* str.__gt__
StrGreater(a, b) == StrLess(b, a)

\* str.lower() on one character
LowerChar(c) ==
    CASE c = "A" -> "a"
      [] c = "B" -> "b"
      [] c = "C" -> "c"
      [] OTHER -> c

\* patch["name"].lower().replace(" ", "-")
Normalize(name) ==
    [i \in 1..Len(name) |->
        LET c == LowerChar(name[i]) IN IF c = " " THEN "-" ELSE c]

(***************************************************************************)
(* The registry.                                                           *)
(***************************************************************************)
_revanced_app_ids ==
    [p \in {"com.reddit.frontpage", "com.ss.android.ugc.trill", "com.twitter.android",
            "de.dwd.warnapp", "com.spotify.music", "com.awedea.nyx",
            "ginlemon.iconpackstudio", "com.ticktick.task", "tv.twitch.android.app",
            "com.myprog.hexedit", "co.windyapp.android", "org.totschnig.myexpenses",
            "com.backdrops.wallpapers", "com.ithebk.expensemanager",
            "net.dinglisch.android.taskerm", "net.binarymode.android.irplus",
            "com.vsco.cam", "com.zombodroid.MemeGenerator", "com.teslacoilsw.launcher",
            "eu.faircode.netguard", "com.instagram.android", "com.nis.app",
            "com.facebook.orca", "com.google.android.apps.recorder", "tv.trakt.trakt",
            "com.candylink.openvpn", "com.sony.songpal.mdr",
            "com.dci.dev.androidtwelvewidgets", "io.yuka.android", "free.reddit.news",
            "com.rubenmayayo.reddit", "com.andrewshu.android.reddit",
            "com.laurencedawson.reddit_sync", "ml.docilealligator.infinityforreddit",
            "me.ccrama.redditslide", "com.onelouder.baconreader",
            "com.google.android.youtube", "com.google.android.apps.youtube.music",
            "com.mgoogle.android.gms", "jp.pxv.android"} |->
        CASE p = "com.reddit.frontpage" -> "reddit"
          [] p = "com.ss.android.ugc.trill" -> "tiktok"
          [] p = "com.twitter.android" -> "twitter"
          [] p = "de.dwd.warnapp" -> "warnwetter"
          [] p = "com.spotify.music" -> "spotify"
          [] p = "com.awedea.nyx" -> "nyx-music-player"
          [] p = "ginlemon.iconpackstudio" -> "icon_pack_studio"
          [] p = "com.ticktick.task" -> "ticktick"
          [] p = "tv.twitch.android.app" -> "twitch"
          [] p = "com.myprog.hexedit" -> "hex-editor"
          [] p = "co.windyapp.android" -> "windy"
          [] p = "org.totschnig.myexpenses" -> "my-expenses"
          [] p = "com.backdrops.wallpapers" -> "backdrops"
          [] p = "com.ithebk.expensemanager" -> "expensemanager"
          [] p = "net.dinglisch.android.taskerm" -> "tasker"
          [] p = "net.binarymode.android.irplus" -> "irplus"
          [] p = "com.vsco.cam" -> "vsco"
          [] p = "com.zombodroid.MemeGenerator" -> "meme-generator-free"
          [] p = "com.teslacoilsw.launcher" -> "nova_launcher"
          [] p = "eu.faircode.netguard" -> "netguard"
          [] p = "com.instagram.android" -> "instagram"
          [] p = "com.nis.app" -> "inshorts"
          [] p = "com.facebook.orca" -> "messenger"
          [] p = "com.google.android.apps.recorder" -> "grecorder"
          [] p = "tv.trakt.trakt" -> "trakt"
          [] p = "com.candylink.openvpn" -> "candyvpn"
          [] p = "com.sony.songpal.mdr" -> "sonyheadphone"
          [] p = "com.dci.dev.androidtwelvewidgets" -> "androidtwelvewidgets"
          [] p = "io.yuka.android" -> "yuka"
          [] p = "free.reddit.news" -> "relay"
          [] p = "com.rubenmayayo.reddit" -> "boost"
          [] p = "com.andrewshu.android.reddit" -> "rif"
          [] p = "com.laurencedawson.reddit_sync" -> "sync"
          [] p = "ml.docilealligator.infinityforreddit" -> "infinity"
          [] p = "me.ccrama.redditslide" -> "slide"
          [] p = "com.onelouder.baconreader" -> "bacon"
          [] p = "com.google.android.youtube" -> "youtube"
          [] p = "com.google.android.apps.youtube.music" -> "youtube_music"
          [] p = "com.mgoogle.android.gms" -> "microg"
          [] p = "jp.pxv.android" -> "pixiv"]

\* package id -> (short name, attribute name of the app's bucket)
revanced_app_ids ==
    [key \in DOMAIN _revanced_app_ids |->
        <<_revanced_app_ids[key], "_" \o _revanced_app_ids[key]>>]

\* the attribute names fetch_patches sets on the instance
BucketAttrs == {revanced_app_ids[x][2] : x \in DOMAIN revanced_app_ids} \cup {"universal_patch"}

(***************************************************************************)
(* PatchLoader.load_patches                                                *)
(***************************************************************************)
\* except FileNotFoundError: the only handler of load_patches
Handled(exc) == exc = "FileNotFoundError"

\* file is what open() and json.load() find at file_name
load_patches(file_name, file) ==
    LET exc == CASE file.kind = "missing" -> "FileNotFoundError"
                 [] file.kind = "malformed" -> "JSONDecodeError"
                 [] OTHER -> "none"
    IN  IF exc = "none"
        THEN [raised |-> "none", file_name |-> None, value |-> file.patches]
        ELSE IF Handled(exc)
        THEN [raised |-> "PatchesJsonLoadFailed", file_name |-> file_name, value |-> <<>>]
        ELSE [raised |-> exc, file_name |-> None, value |-> <<>>]

(***************************************************************************)
(* Patches.fetch_patches                                                   *)
(***************************************************************************)
\* a reset that keeps the lists an earlier call filled
ResetBucketsKeep(self) ==
    IF DOMAIN self = {} THEN [k \in BucketAttrs |-> <<>>] ELSE self

\* lines 110-112: every bucket attribute is set to a new empty list
ResetBuckets(self) == [k \in BucketAttrs |-> <<>>]

\* version[0] in place of version[-1]
ProjectedVersionFirst(version) ==
    IF version # <<>> THEN version[1] ELSE All

\* line 127: version[-1] if version else "all"
ProjectedVersion(version) ==
    IF version # <<>> THEN version[Len(version)] ELSE All

\* lines 116-118 and 125-127: the projection of a patch
Projection(patch, app_id, version) ==
    [name |-> patch.name, description |-> patch.description,
     app |-> app_id, version |-> version]

\* lines 120-128: the loop over the compatible packages of one patch
RECURSIVE CompatibleLoop(_, _, _)
CompatibleLoop(self, patch, i) ==
    IF i > Len(patch.compatiblePackages) THEN self
    ELSE LET compatible_package == patch.compatiblePackages[i].name
             version == patch.compatiblePackages[i].versions
         IN  IF compatible_package \in DOMAIN revanced_app_ids
             THEN LET app_name == revanced_app_ids[compatible_package][2]
                      p == Projection(patch, compatible_package, ProjectedVersion(version))
                  IN  CompatibleLoop([self EXCEPT ![app_name] = Append(@, p)], patch, i + 1)
             ELSE CompatibleLoop(self, patch, i + 1)

\* lines 115-119: a patch without compatible packages goes to the universal bucket
UniversalStep(self, patch) ==
    IF patch.compatiblePackages = <<>>
    THEN [self EXCEPT !["universal_patch"] = Append(@, Projection(patch, "universal", All))]
    ELSE self

\* lines 114-128: the loop over the patches of the manifest
RECURSIVE PatchLoop(_, _, _)
PatchLoop(self, patches, i) ==
    IF i > Len(patches) THEN self
    ELSE PatchLoop(CompatibleLoop(UniversalStep(self, patches[i]), patches[i], 1),
                   patches, i + 1)

\* lines 110-128: the buckets fetch_patches builds from a loaded manifest
IndexPatches(self, patches) == PatchLoop(ResetBuckets(self), patches, 1)

\* lines 129-130: len(getattr(self, "_" + app.app_name)); the modelled instance
\* has the bucket attributes only
CountPatches(self, target) ==
    IF ("_" \o target.app_name) \in DOMAIN self
    THEN [raised |-> "none", n |-> Len(self["_" \o target.app_name])]
    ELSE [raised |-> "AttributeError", n |-> 0]

\* line 108: the path of the manifest
ManifestPath(config, target) == config.temp_folder \o "/" \o target.patches_json

\* whether the instance holds any projection
Holds(self) == \E k \in DOMAIN self : self[k] # <<>>

fetch_patches(config, file, target) ==
    LET r == load_patches(ManifestPath(config, target), file) IN
    IF r.raised # "none"
    THEN /\ outcome' = [op |-> "fetch_patches", arg |-> file, raised |-> r.raised,
                        ret |-> r.file_name, reads |-> {}, before |-> Holds(buckets)]
         /\ app' = target
         /\ UNCHANGED <<buckets, loaded, parser>>
    ELSE \E b \in {IndexPatches(buckets, r.value)} :
         \E c \in {CountPatches(b, target)} :
             /\ buckets' = b
             /\ loaded' = r.value
             /\ app' = IF c.raised = "none"
                       THEN [target EXCEPT !.no_of_patches = c.n]
                       ELSE target
             /\ outcome' = [op |-> "fetch_patches", arg |-> file, raised |-> c.raised,
                            ret |-> None, reads |-> {}, before |-> Holds(buckets)]
             /\ UNCHANGED parser

(***************************************************************************)
(* Patches.get_package_name, Patches.get                                   *)
(***************************************************************************)
\* lines 78-81: the first package whose short name is app, in dictionary order;
\* short names are unique, so the order decides nothing
get_package_name(a) ==
    LET found == {package \in DOMAIN revanced_app_ids : revanced_app_ids[package][1] = a}
    IN  IF found # {}
        THEN [raised |-> "none", ret |-> CHOOSE package \in found : TRUE]
        ELSE [raised |-> "AppNotFound", ret |-> None]

\* line 151: {value[0]: value[1] for value in self.revanced_app_ids.values()}
app_names ==
    [short \in {revanced_app_ids[p][1] : p \in DOMAIN revanced_app_ids} |->
        revanced_app_ids[CHOOSE p \in DOMAIN revanced_app_ids :
                            revanced_app_ids[p][1] = short][2]]

\* the version of the first entry, "all" or not
NextVersionFirstEntry(patches, i) ==
    IF i > Len(patches) THEN Latest ELSE patches[i].version

\* line 159: next(i["version"] for i in patches if i["version"] != "all"),
\* "latest" (line 157) when the generator is exhausted
RECURSIVE NextVersion(_, _)
NextVersion(patches, i) ==
    IF i > Len(patches) THEN Latest
    ELSE IF patches[i].version # All THEN patches[i].version
    ELSE NextVersion(patches, i + 1)

\* the bucket is looked up before the registry is consulted
getBucketFirst(self, a) ==
    IF ("_" \o a) \notin DOMAIN self
    THEN [raised |-> "AttributeError", patches |-> <<>>, version |-> None,
          reads |-> {"_" \o a}]
    ELSE [raised |-> "none", patches |-> self["_" \o a],
          version |-> NextVersion(self["_" \o a], 1), reads |-> {"_" \o a}]

\* lines 151-160
get(self, a) ==
    IF a \notin DOMAIN app_names
    THEN [raised |-> "AppNotFound", patches |-> <<>>, version |-> None, reads |-> {}]
    ELSE LET app_name == app_names[a]
         IN  IF app_name \notin DOMAIN self
             THEN [raised |-> "AttributeError", patches |-> <<>>, version |-> None,
                   reads |-> {app_name}]
             ELSE [raised |-> "none", patches |-> self[app_name],
                   version |-> NextVersion(self[app_name], 1), reads |-> {app_name}]

(***************************************************************************)
(* Patches.get_app_configs                                                 *)
(***************************************************************************)
\* without the comparison app_version < recommended_version
ExperimentNoLess(app_version, recommended_version) ==
    \/ app_version = Latest
    \/ StrGreater(app_version, recommended_version)

\* with >= in place of >
ExperimentOrEqual(app_version, recommended_version) ==
    \/ app_version = Latest
    \/ ~StrLess(app_version, recommended_version)
    \/ StrLess(app_version, recommended_version)

\* lines 213-217
Experiment(app_version, recommended_version) ==
    \/ app_version = Latest
    \/ StrGreater(app_version, recommended_version)
    \/ StrLess(app_version, recommended_version)

\* lines 209-221
get_app_configs(self, a) ==
    LET r == get(self, a.app_name) IN
    IF r.raised # "none"
    THEN /\ app' = a
         /\ outcome' = [op |-> "get_app_configs", arg |-> a, raised |-> r.raised,
                        ret |-> None, reads |-> r.reads, before |-> FALSE]
    ELSE LET experiment == Truthy(a.app_version) /\ Experiment(a.app_version, r.version)
             recommended_version ==
                 IF Truthy(a.app_version) THEN a.app_version ELSE r.version
         IN  /\ app' = [a EXCEPT !.set_recommended_version =
                                     Append(@, <<recommended_version, experiment>>)]
             /\ outcome' = [op |-> "get_app_configs", arg |-> a, raised |-> "none",
                            ret |-> [patches |-> r.patches, version |-> r.version],
                            reads |-> r.reads, before |-> FALSE]

(***************************************************************************)
(* Patches.include_exclude_patch                                           *)
(***************************************************************************)
\* the name is passed on as it is in the manifest
PrimaryCallRawName(patch, exclude_request) ==
    [loop |-> "primary",
     op |-> IF patch.name \notin exclude_request THEN "include" ELSE "exclude",
     name |-> patch.name]

\* lines 182-186: the parser call of one patch of the list
PrimaryCall(patch, exclude_request) ==
    LET normalized_patch == Normalize(patch.name)
    IN  [loop |-> "primary",
         op |-> IF normalized_patch \notin exclude_request THEN "include" ELSE "exclude",
         name |-> normalized_patch]

\* a name already emitted is skipped
PrimaryLoopOncePerName(patches, exclude_request) ==
    LET first == SelectSeq([i \in 1..Len(patches) |-> i],
                           LAMBDA i : \A j \in 1..(i - 1) :
                               Normalize(patches[j].name) # Normalize(patches[i].name))
    IN  [k \in 1..Len(first) |->
            [loop |-> "primary",
             op |-> IF Normalize(patches[first[k]].name) \notin exclude_request
                    THEN "include" ELSE "exclude",
             name |-> Normalize(patches[first[k]].name)]]

\* lines 180-186
PrimaryLoop(patches, exclude_request) ==
    [i \in 1..Len(patches) |-> PrimaryCall(patches[i], exclude_request)]

\* the request is compared with the name of the universal patch
StrEqualsRecordName(normalized_patch, record) ==
    normalized_patch = Normalize(record.name)

\* str.__eq__(dict): a string equals no dictionary
StrEqualsRecord(normalized_patch, record) == FALSE

\* line 188: normalized_patch not in getattr(self, "universal_patch", [])
NotInUniversal(normalized_patch, universal_patch) ==
    ~ \E i \in 1..Len(universal_patch) : StrEqualsRecord(normalized_patch, universal_patch[i])

\* lines 187-190
RECURSIVE SecondaryLoop(_, _, _)
SecondaryLoop(include_request, universal_patch, i) ==
    IF i > Len(include_request) THEN <<>>
    ELSE (IF NotInUniversal(include_request[i], universal_patch)
          THEN <<[loop |-> "secondary", op |-> "include", name |-> include_request[i]]>>
          ELSE <<>>)
         \o SecondaryLoop(include_request, universal_patch, i + 1)

\* lines 180-190: the parser calls, in the order they are made
ParserCalls(self, a, patches) ==
    PrimaryLoop(patches, a.exclude_request)
        \o SecondaryLoop(a.include_request,
                         IF "universal_patch" \in DOMAIN self THEN self["universal_patch"]
                         ELSE <<>>, 1)

include_exclude_patch(self, a, patches) ==
    /\ parser' = ParserCalls(self, a, patches)
    /\ app' = a
    /\ outcome' = [op |-> "include_exclude_patch", arg |-> patches, raised |-> "none",
                   ret |-> None, reads |-> {"universal_patch"}, before |-> FALSE]

(***************************************************************************)
(* Inputs: manifests, files, application descriptors.                      *)
(***************************************************************************)
NameAb == <<"A", " ", "b">>
NameHy == <<"a", "-", "b">>
NameC == <<"C">>
NameLc == <<"c">>
Names == {NameAb, NameHy, NameC}

\* compatiblePackages entries: two registered package ids and one that is not
Entries ==
    { [name |-> "com.spotify.music", versions |-> <<>>],
      [name |-> "com.spotify.music", versions |-> <<V10, V20>>],
      [name |-> "com.twitter.android", versions |-> <<V10>>],
      [name |-> "org.example.unregistered", versions |-> <<V20>>] }

CompatLists(n) == UNION {[1..k -> Entries] : k \in 0..n}

\* patch descriptors with at most n compatible packages
Descriptors(names, n) ==
    [name : names, description : {"d"}, compatiblePackages : CompatLists(n)]

\* all manifests of at most s patches and entries together
RECURSIVE ManifestsUpTo(_, _)
ManifestsUpTo(names, s) ==
    IF s = 0 THEN {<<>>}
    ELSE {<<>>} \cup
         UNION { { <<d>> \o m :
                     m \in ManifestsUpTo(names, s - 1 - Len(d.compatiblePackages)) }
                 : d \in Descriptors(names, s - 1) }

\* the manifests an instance is constructed from
Manifests == ManifestsUpTo(Names, MaxSize)

\* the manifests a later fetch_patches finds
LaterManifests == ManifestsUpTo({NameAb, NameC}, MaxSize)

\* what open() and json.load() find at a path
Files ==
    {[kind |-> "missing"], [kind |-> "malformed"]}
        \cup {[kind |-> "json", patches |-> m] : m \in LaterManifests}

Configs == {[temp_folder |-> "apks"]}
Paths == {"apks/patches.json", "apks/other.json"}

ShortNames == {_revanced_app_ids[p] : p \in DOMAIN _revanced_app_ids}

\* names that are no short name: another case, a bucket attribute, a package id,
\* the empty string, an unknown name
OtherNames == {"Spotify", "_spotify", "com.spotify.music", "", "nope"}

\* an APP descriptor as its constructor leaves it
NewApp(app_name, app_version, include_request, exclude_request) ==
    [app_name |-> app_name, app_version |-> app_version,
     include_request |-> include_request, exclude_request |-> exclude_request,
     patches_json |-> "patches.json",
     no_of_patches |-> 0, set_recommended_version |-> <<>>]

TargetApps == {NewApp(n, None, <<>>, {}) : n \in {"spotify", "nope"}}

VersionRequests == {None, EmptyStr, Latest, V10, V20}
VersionApps ==
    {NewApp(n, v, <<>>, {}) : n \in {"spotify", "twitter", "nope"}, v \in VersionRequests}

IncludeRequests == {<<>>, <<NameHy>>, <<NameLc, NameHy>>, <<NameC>>}
ExcludeRequests == {{}, {NameHy}, {NameLc}, {NameHy, NameLc}}
FilterApps ==
    {NewApp("spotify", None, i, e) : i \in IncludeRequests, e \in ExcludeRequests}

\* no call in progress, no descriptor passed
Idle == [op |-> "idle", arg |-> None, raised |-> "none", ret |-> None, reads |-> {},
         before |-> FALSE]

(***************************************************************************)
(* The specification: an instance constructed from a readable manifest     *)
(* (__init__ is fetch_patches on a new instance), then calls of its        *)
(* methods, one at a time.                                                 *)
(***************************************************************************)
Init ==
    \E m \in Manifests, n \in {"spotify", "twitter"} :
        LET self == IndexPatches(<<>>, m) IN
        /\ buckets = self
        /\ loaded = m
        /\ app = [NewApp(n, None, <<>>, {}) EXCEPT
                     !.no_of_patches = CountPatches(self, NewApp(n, None, <<>>, {})).n]
        /\ parser = <<>>
        /\ outcome = [op |-> "__init__", arg |-> [kind |-> "json", patches |-> m],
                      raised |-> "none", ret |-> None, reads |-> {}, before |-> FALSE]

\* calls are synchronous and made one at a time: the call has returned, and the
\* caller drops what it passed and what it got
Return ==
    /\ outcome.op # "idle"
    /\ outcome' = Idle
    /\ app' = None
    /\ parser' = <<>>
    /\ UNCHANGED <<buckets, loaded>>

FetchPatches ==
    /\ outcome.op = "idle"
    /\ \E config \in Configs, file \in Files, target \in TargetApps :
           fetch_patches(config, file, target)

GetPackageName ==
    /\ outcome.op = "idle"
    /\ \E a \in ShortNames \cup OtherNames :
        LET r == get_package_name(a) IN
        /\ outcome' = [op |-> "get_package_name", arg |-> a, raised |-> r.raised,
                       ret |-> r.ret, reads |-> {}, before |-> FALSE]
        /\ UNCHANGED <<buckets, loaded, app, parser>>

Get ==
    /\ outcome.op = "idle"
    /\ \E a \in ShortNames \cup OtherNames :
        LET r == get(buckets, a) IN
        /\ outcome' = [op |-> "get", arg |-> a, raised |-> r.raised,
                       ret |-> [patches |-> r.patches, version |-> r.version],
                       reads |-> r.reads, before |-> FALSE]
        /\ UNCHANGED <<buckets, loaded, app, parser>>

GetAppConfigs ==
    /\ outcome.op = "idle"
    /\ \E a \in VersionApps : get_app_configs(buckets, a)
    /\ UNCHANGED <<buckets, loaded, parser>>

IncludeExcludePatch ==
    /\ outcome.op = "idle"
    /\ \E a \in FilterApps, k \in {"_spotify", "_twitter", "universal_patch"} :
           include_exclude_patch(buckets, a, buckets[k])
    /\ UNCHANGED <<buckets, loaded>>

Next ==
    \/ FetchPatches
    \/ GetPackageName
    \/ Get
    \/ GetAppConfigs
    \/ IncludeExcludePatch
    \/ Return

Spec == Init /\ [][Next]_vars

(***************************************************************************)
(* The loader specification: PatchLoader.load_patches is a static method,  *)
(* called here without any Patches instance.                               *)
(***************************************************************************)
InitLoad ==
    /\ buckets = <<>>
    /\ loaded = <<>>
    /\ app = None
    /\ parser = <<>>
    /\ outcome = Idle

LoadPatches ==
    /\ outcome.op = "idle"
    /\ \E file_name \in Paths, file \in Files :
        LET r == load_patches(file_name, file) IN
        /\ outcome' = [op |-> "load_patches", arg |-> [file_name |-> file_name, file |-> file],
                       raised |-> r.raised,
                       ret |-> [file_name |-> r.file_name, value |-> r.value],
                       reads |-> {}, before |-> FALSE]
        /\ UNCHANGED <<buckets, loaded, app, parser>>

NextLoad == LoadPatches \/ Return

SpecLoad == InitLoad /\ [][NextLoad]_vars

(***************************************************************************)
(* Reference definitions the claims are stated with.                       *)
(***************************************************************************)
\* lower-cased, every space replaced by a hyphen, for the names of the model
ExpectedNormal(name) ==
    CASE name = NameAb -> NameHy
      [] name = NameHy -> NameHy
      [] name = NameC -> NameLc

\* the (patch, entry) positions of a manifest whose package id is pkg
PairsOf(m, pkg) ==
    UNION { { <<i, j>> : j \in {x \in 1..Len(m[i].compatiblePackages) :
                                   m[i].compatiblePackages[x].name = pkg} }
            : i \in 1..Len(m) }

\* manifest order, then listed order
Before(p, q) == p[1] < q[1] \/ (p[1] = q[1] /\ p[2] < q[2])

InOrder(S) ==
    [k \in 1..Cardinality(S) |->
        CHOOSE p \in S : Cardinality({q \in S : Before(q, p)}) = k - 1]

ExpectedAppBucket(m, pkg) ==
    LET ord == InOrder(PairsOf(m, pkg)) IN
    [k \in 1..Len(ord) |->
        LET patch == m[ord[k][1]]
            versions == patch.compatiblePackages[ord[k][2]].versions
        IN  [name |-> patch.name, description |-> patch.description, app |-> pkg,
             version |-> IF versions = <<>> THEN All ELSE versions[Len(versions)]]]

ExpectedUniversal(m) ==
    LET ord == InOrder({<<i, 0>> : i \in {x \in 1..Len(m) : m[x].compatiblePackages = <<>>}})
    IN  [k \in 1..Len(ord) |->
            [name |-> m[ord[k][1]].name, description |-> m[ord[k][1]].description,
             app |-> "universal", version |-> All]]

\* the package id whose bucket an attribute is
PackageOf ==
    [k \in BucketAttrs \ {"universal_patch"} |->
        CHOOSE pkg \in DOMAIN _revanced_app_ids : "_" \o _revanced_app_ids[pkg] = k]

\* the reference partition of a manifest
ExpectedBuckets(m) ==
    [k \in BucketAttrs |->
        IF k = "universal_patch" THEN ExpectedUniversal(m)
        ELSE ExpectedAppBucket(m, PackageOf[k])]

\* the version of the first entry whose version is not "all", else "latest"
FirstNotAll(patches) ==
    LET idx == {i \in 1..Len(patches) : patches[i].version # All} IN
    IF idx = {} THEN Latest
    ELSE patches[CHOOSE i \in idx : \A j \in idx : i <= j].version

\* the positions of the parser log the primary loop wrote
PrimaryCalls == {i \in 1..Len(parser) : parser[i].loop = "primary"}

(***************************************************************************)
(* Claims.                                                                 *)
(***************************************************************************)

\* C1: load_patches fails with PatchesJsonLoadFailed carrying the attempted path
\* both when the file is missing and when its contents are not JSON.
C1_LoadFailureIsPatchesJsonLoadFailed ==
    (outcome.op = "load_patches" /\ outcome.arg.file.kind \in {"missing", "malformed"})
        => /\ outcome.raised = "PatchesJsonLoadFailed"
           /\ outcome.ret.file_name = outcome.arg.file_name

\* C2: get_app_configs calls set_recommended_version exactly once, with the
\* recommended version of get and false when no version is requested, and with
\* the requested version and (requested is "latest" or differs from the
\* recommended version) when one is.
C2_VersionPolicy ==
    (outcome.op = "get_app_configs" /\ outcome.raised = "none")
        => LET requested == outcome.arg.app_version
               recommended == get(buckets, outcome.arg.app_name).version
               asked == requested \notin {None, EmptyStr}
           IN  app.set_recommended_version =
                   << << IF asked THEN requested ELSE recommended,
                         asked /\ (requested = Latest \/ requested # recommended) >> >>

C2_Witness ==
    /\ outcome.op = "get_app_configs"
    /\ outcome.raised = "none"
    /\ outcome.arg.app_version = V10
    /\ outcome.ret.version = V20
    /\ app.set_recommended_version = << <<V10, TRUE>> >>

\* C3 as stated: a requested version equal to the recommended version sets the
\* experimental flag.
C3_EqualIsExperimental ==
    (/\ outcome.op = "get_app_configs"
     /\ outcome.raised = "none"
     /\ Truthy(outcome.arg.app_version)
     /\ outcome.arg.app_version = outcome.ret.version)
        => app.set_recommended_version[1][2] = TRUE

\* C3 as amended: a requested version equal to the recommended version sets the
\* experimental flag exactly when that version is the literal "latest".
C3_EqualIsExperimentalOnlyIfLatest ==
    (/\ outcome.op = "get_app_configs"
     /\ outcome.raised = "none"
     /\ Truthy(outcome.arg.app_version)
     /\ outcome.arg.app_version = outcome.ret.version)
        => /\ Len(app.set_recommended_version) = 1
           /\ app.set_recommended_version[1][1] = outcome.arg.app_version
           /\ app.set_recommended_version[1][2] = (outcome.arg.app_version = Latest)

C3_Witness ==
    /\ outcome.op = "get_app_configs"
    /\ outcome.raised = "none"
    /\ outcome.arg.app_version = V20
    /\ outcome.ret.version = V20
    /\ app.set_recommended_version = << <<V20, FALSE>> >>

C5_BucketsArePartition ==
    (outcome.op \in {"__init__", "fetch_patches"} /\ outcome.arg.kind = "json")
        => /\ buckets = ExpectedBuckets(outcome.arg.patches)
           /\ app.app_name \in ShortNames => outcome.raised = "none"

C5_Witness ==
    /\ outcome.op = "fetch_patches"
    /\ outcome.raised = "none"
    /\ Len(outcome.arg.patches) = 2
    /\ \E j \in 1..Len(outcome.arg.patches[2].compatiblePackages) :
           outcome.arg.patches[2].compatiblePackages[j].name = "org.example.unregistered"
    /\ Len(buckets["universal_patch"]) = 1
    /\ Len(buckets["_twitter"]) + Len(buckets["_spotify"]) = 0

\* C6: for a name that is no short name, get_package_name and get raise
\* AppNotFound, and get reads no bucket.
C6_UnknownAppNotFound ==
    (outcome.op \in {"get", "get_package_name"} /\ outcome.arg \notin ShortNames)
        => /\ outcome.raised = "AppNotFound"
           /\ outcome.reads = {}

C6_Witness ==
    /\ outcome.op = "get"
    /\ outcome.arg = "Spotify"
    /\ outcome.raised = "AppNotFound"
    /\ buckets["_spotify"] # <<>>

\* C7: the primary loop makes, for every entry of the list in order, exactly one
\* call with the normalized name: exclude if it is in the exclude requests,
\* include otherwise.
C7_PrimaryLoop ==
    outcome.op = "include_exclude_patch"
        => /\ PrimaryCalls = 1..Len(outcome.arg)
           /\ \A i \in 1..Len(outcome.arg) :
                  /\ parser[i].name = ExpectedNormal(outcome.arg[i].name)
                  /\ parser[i].op =
                         IF ExpectedNormal(outcome.arg[i].name) \in app.exclude_request
                         THEN "exclude" ELSE "include"

C7_Witness ==
    /\ outcome.op = "include_exclude_patch"
    /\ Len(outcome.arg) = 2
    /\ outcome.arg[1].name = NameAb
    /\ parser[1] = [loop |-> "primary", op |-> "exclude", name |-> NameHy]
    /\ parser[2] = [loop |-> "primary", op |-> "include", name |-> NameLc]

\* C8 as stated: when an app's bucket is passed, no normalized name receives
\* more than one call from the primary loop.
C8_NoNameTwice ==
    (/\ outcome.op = "include_exclude_patch"
     /\ \E k \in BucketAttrs \ {"universal_patch"} : outcome.arg = buckets[k])
        => \A i, j \in PrimaryCalls : parser[i].name = parser[j].name => i = j

\* C8 as amended: a normalized name receives as many calls from the primary loop
\* as the bucket has entries whose name normalizes to it.
C8_OneCallPerEntry ==
    outcome.op = "include_exclude_patch"
        => \A n \in {NameHy, NameLc} :
               Cardinality({i \in PrimaryCalls : parser[i].name = n})
                   = Cardinality({i \in 1..Len(outcome.arg) :
                                     ExpectedNormal(outcome.arg[i].name) = n})

C8_Witness ==
    /\ outcome.op = "include_exclude_patch"
    /\ outcome.arg = buckets["_spotify"]
    /\ Len(outcome.arg) = 2
    /\ PrimaryCalls = {1, 2}
    /\ parser[1].name = parser[2].name

\* C9: the buckets always are the partition of the manifest read last, whatever
\* was loaded before, and a call that returns leaves the size of the target
\* app's bucket in no_of_patches.
C9_FreshBuckets ==
    /\ buckets = ExpectedBuckets(loaded)
    /\ (outcome.op = "fetch_patches" /\ outcome.raised = "none")
           => /\ loaded = outcome.arg.patches
              /\ app.no_of_patches = Len(ExpectedAppBucket(loaded, PackageOf["_" \o app.app_name]))

C9_Witness ==
    /\ outcome.op = "fetch_patches"
    /\ outcome.raised = "none"
    /\ outcome.before
    /\ Len(loaded) = 1
    /\ ~Holds([buckets EXCEPT !["universal_patch"] = <<>>])
    /\ app.no_of_patches = 0

\* C10: after the primary loop, the secondary loop calls include for every name
\* of the include requests, in order, whatever the universal bucket and the
\* exclude requests hold.
C10_SecondaryLoop ==
    outcome.op = "include_exclude_patch"
        => /\ Len(parser) = Len(outcome.arg) + Len(app.include_request)
           /\ \A i \in 1..Len(outcome.arg) : parser[i].loop = "primary"
           /\ \A j \in 1..Len(app.include_request) :
                  parser[Len(outcome.arg) + j] =
                      [loop |-> "secondary", op |-> "include",
                       name |-> app.include_request[j]]

C10_Witness ==
    /\ outcome.op = "include_exclude_patch"
    /\ outcome.arg = buckets["universal_patch"]
    /\ Len(outcome.arg) = 1
    /\ app.include_request = <<NameHy>>
    /\ parser = << [loop |-> "primary", op |-> "exclude", name |-> NameHy],
                   [loop |-> "secondary", op |-> "include", name |-> NameHy] >>

====
